---- MODULE Spec2Model ----
\* Model of spirometer_final.py: the prediction equations, the breath
\* simulation loop run by a worker thread, the interpretation of the
\* FEV1/FVC ratio, and start_test, which reads the form and starts the worker.
\*
\* Numbers.  The program computes in binary floating point; the model computes
\* in decimal fixed point, every quantity an integer count of a fixed unit:
\*   predicted volumes   1e-5 L      flow, peak_flow, noise   1e-3 L/s
\*   time axis t         1e-4 s      volume, fvc, fev1        1e-7 L
\*   rand(), decay, exp  1e-3
\* np.random is the process-wide generator: one state, advanced by every draw.
EXTENDS Integers, Sequences, FiniteSets, TLC

VARIABLES
    rng,          \* state of the global np.random generator
    threads,      \* worker threads: the frame of run() / simulate_breath
    time_var,     \* tk.StringVar "Time" readout, in tenths of a second
    flow_var,     \* tk.StringVar "Flow" readout, in hundredths of L/s
    volume_var,   \* tk.StringVar "Volume" readout, in hundredths of L
    ax,           \* data held by the matplotlib axes
    canvas,       \* what canvas.draw() last rendered
    messagebox,   \* the dialog on screen, if any
    started,      \* number of clicks on "Start Test" so far
    interp_call   \* a direct call of interpret_results and what it gave

vars == <<rng, threads, time_var, flow_var, volume_var, ax, canvas,
          messagebox, started, interp_call>>

\* ---------------------------------------------------------------- bounds
\* clicks on "Start Test" in one behaviour
MaxTests == 2
\* samples per run in the two-thread specification (the program's 120 is kept
\* in the one-run-at-a-time specification)
ConcPoints == 3

\* ---------------------------------------------------------------- constants
total_points == 120

Threads == {"T1", "T2"}
Seeds == {0, 517}

\* what the user may have typed or selected when the button is clicked
AgeTexts == { <<"a", "b", "c">>, <<"-", "5">>, <<"0">>, <<"3", "0">>, <<"8", "0">> }
HeightTexts == { <<>>, <<"0">>, <<"5", "0">>, <<"1", "7", "0">> }
SexValues == {"Male", "Female"}
SmokerValues == {"No", "Yes"}

\* ---------------------------------------------------------------- helpers
Max(a, b) == IF a >= b THEN a ELSE b

Digits == [c \in {"0", "1", "2", "3", "4", "5", "6", "7", "8", "9"} |->
            CASE c = "0" -> 0 [] c = "1" -> 1 [] c = "2" -> 2 [] c = "3" -> 3
              [] c = "4" -> 4 [] c = "5" -> 5 [] c = "6" -> 6 [] c = "7" -> 7
              [] c = "8" -> 8 [] c = "9" -> 9]

RECURSIVE DigitsValue(_)
DigitsValue(s) ==
    IF s = <<>> THEN 0
    ELSE 10 * DigitsValue(SubSeq(s, 1, Len(s) - 1)) + Digits[s[Len(s)]]

\* float(text): an optional sign and decimal digits give the number, anything
\* else raises ValueError.
py_float(text) ==
    LET neg  == text # <<>> /\ text[1] = "-"
        body == IF text # <<>> /\ text[1] \in {"-", "+"} THEN Tail(text) ELSE text
    IN  IF body = <<>> \/ \E k \in 1..Len(body) : body[k] \notin DOMAIN Digits
        THEN [ok |-> FALSE, v |-> 0]
        ELSE [ok |-> TRUE, v |-> IF neg THEN 0 - DigitsValue(body) ELSE DigitsValue(body)]

str_lower(s) ==
    CASE s = "Male" -> "male" [] s = "Female" -> "female" [] OTHER -> s

\* round x/d to the nearest integer, ties to even: what a format spec
\* such as :.2f does to the value it prints
RoundHalfEven(x, d) ==
    LET q == x \div d
        r == x % d
    IN  IF 2 * r < d THEN q
        ELSE IF 2 * r > d THEN q + 1
        ELSE IF q % 2 = 0 THEN q ELSE q + 1

\* ---------------------------------------------------------------- np.random
np_random_next(s) == (s * 37 + 101) % 1024
\* np.random.rand(): uniform in [0, 1), in thousandths
np_random_rand(s) == (s * 1000) \div 1024
\* np.random.normal(loc, scale): loc + scale * z, z one of -2..2
np_random_normal(loc, scale, s) == loc + scale * ((s % 5) - 2)

\* ---------------------------------------------------------------- numpy
\* np.linspace(start, stop, num)[k], k from 0, endpoint included; start and
\* stop in seconds, the result in 1e-4 s
\* mutant: the endpoint left out, the step (stop - start) / num
np_linspace_at_noendpoint(start, stop, num, k) ==
    start * 10000 + (k * (stop - start) * 10000) \div num

np_linspace_at(start, stop, num, k) ==
    start * 10000 + (k * (stop - start) * 10000) \div (num - 1)

np_linspace(start, stop, num) ==
    [k \in 1..num |-> np_linspace_at(start, stop, num, k - 1)]

np_zeros(num) == [k \in 1..num |-> 0]

RECURSIVE ExpSeries(_, _, _, _)
\* sum of x^k / k! from term k on, x and the result in thousandths
ExpSeries(x, k, term, acc) ==
    IF term = 0 \/ k > 24 THEN acc
    ELSE ExpSeries(x, k + 1, (term * x) \div (1000 * k), acc + term)

\* np.exp(x) for x <= 0, x and the result in thousandths
np_exp(x) == 1000000 \div ExpSeries(0 - x, 1, 1000, 0)

\* d * (y[k] + y[k-1]) / 2 with d = x[k] - x[k-1], for the k-th point (k >= 2)
trapz_term(y, x, k) == ((x[k] - x[k - 1]) * (y[k] + y[k - 1])) \div 2

RECURSIVE SumTerms(_, _, _, _)
\* the sum of the terms lo..hi, added up pairwise as numpy's sum does
SumTerms(y, x, lo, hi) ==
    IF lo > hi THEN 0
    ELSE IF lo = hi THEN trapz_term(y, x, lo)
    ELSE LET mid == (lo + hi) \div 2
         IN  SumTerms(y, x, lo, mid) + SumTerms(y, x, mid + 1, hi)

\* mutant: the slice one sample short, np.trapz(y[:m-1], x[:m-1])
np_trapz_short(y, x, m) == SumTerms(y, x, 2, m - 1)

\* np.trapz(y[:m], x[:m])
np_trapz(y, x, m) == SumTerms(y, x, 2, m)

\* ---------------------------------------------------------------- predictor
\* mutant: the two sets of coefficients exchanged
prediction_equations_swapped(age, height, sex) ==
    IF str_lower(sex) = "male"
    THEN << (41 * height - 18 * age - 2690) * 100,
            (34 * height - 13 * age - 1740) * 100 >>
    ELSE << (52 * height - 22 * age - 3600) * 100,
            (41 * height - 18 * age - 2690) * 100 >>

\* the sex-specific regressions, in 1e-5 L
prediction_equations(age, height, sex) ==
    IF str_lower(sex) = "male"
    THEN << (52 * height - 22 * age - 3600) * 100,
            (41 * height - 18 * age - 2690) * 100 >>
    ELSE << (41 * height - 18 * age - 2690) * 100,
            (34 * height - 13 * age - 1740) * 100 >>

\* mutant: the two smoker factors exchanged
smoker_adjust_swapped(pred, smoker) ==
    IF smoker THEN << (pred[1] * 85) \div 100, (pred[2] * 90) \div 100 >> ELSE pred

\* fvc_pred *= 0.9 ; fev1_pred *= 0.85 for a smoker
smoker_adjust(pred, smoker) ==
    IF smoker THEN << (pred[1] * 90) \div 100, (pred[2] * 85) \div 100 >> ELSE pred

\* mutant: the floors forgotten
apply_floors_none(pred) == pred

\* the floors of the return statement: 1.5 L and 1.0 L
apply_floors(pred) == << Max(pred[1], 150000), Max(pred[2], 100000) >>

calculate_spirometry(age, height, sex, smoker) ==
    apply_floors(smoker_adjust(prediction_equations(age, height, sex), smoker))

\* ---------------------------------------------------------------- interpreter
\* a value with its type: <<type, value>>
PyFloat(v) == <<"float", v>>
NpFloat(v) == <<"np.float64", v>>
KindOf(a) == a[1]
ValueOf(a) == a[2]

\* a / b.  Two plain floats raise ZeroDivisionError on b = 0; as soon as one
\* operand is an np.float64 numpy divides, and b = 0 gives inf, -inf or nan.
true_div(a, b) ==
    IF ValueOf(b) # 0 THEN [tag |-> "num", top |-> ValueOf(a), bot |-> ValueOf(b)]
    ELSE IF KindOf(a) = "float" /\ KindOf(b) = "float" THEN [tag |-> "raise", top |-> 0, bot |-> 0]
    ELSE IF ValueOf(a) > 0 THEN [tag |-> "inf", top |-> 0, bot |-> 0]
    ELSE IF ValueOf(a) < 0 THEN [tag |-> "-inf", top |-> 0, bot |-> 0]
    ELSE [tag |-> "nan", top |-> 0, bot |-> 0]

\* ratio >= num/den
ratio_ge(ratio, num, den) ==
    CASE ratio.tag = "num" ->
            IF ratio.bot > 0 THEN ratio.top * den >= num * ratio.bot
                           ELSE ratio.top * den <= num * ratio.bot
      [] ratio.tag = "inf" -> TRUE
      [] OTHER -> FALSE

\* mutant: the Normal boundary exclusive
interpret_results_strict(fvc, fev1) ==
    LET ratio == true_div(fev1, fvc)
    IN  IF ratio.tag = "raise" THEN "ZeroDivisionError"
        ELSE IF ratio_ge(ratio, 7, 10) /\ ~(ratio.tag = "num" /\ ratio.top * 10 = 7 * ratio.bot)
             THEN "Normal Lung Function"
        ELSE IF ratio_ge(ratio, 5, 10) THEN "Mild Obstruction"
        ELSE "Severe Obstruction"

interpret_results(fvc, fev1) ==
    LET ratio == true_div(fev1, fvc)
    IN  IF ratio.tag = "raise" THEN "ZeroDivisionError"
        ELSE IF ratio_ge(ratio, 7, 10) THEN "Normal Lung Function"
        ELSE IF ratio_ge(ratio, 5, 10) THEN "Mild Obstruction"
        ELSE "Severe Obstruction"

Categories == {"Normal Lung Function", "Mild Obstruction", "Severe Obstruction"}

\* ---------------------------------------------------------------- formatting
\* f"{t[i]:.1f} s", f"{flow[i]:.2f} L/s", f"{volume[i]:.2f} L"
fmt_time(t) == RoundHalfEven(t, 1000)
fmt_flow(f) == RoundHalfEven(f, 10)
fmt_volume(v) == RoundHalfEven(v, 100000)

\* f"{fev1/fvc:.2f}"
fmt_ratio(ratio) ==
    IF ratio.tag # "num" THEN [tag |-> ratio.tag, shown |-> 0]
    ELSE IF ratio.bot > 0 THEN [tag |-> "num", shown |-> RoundHalfEven(100 * ratio.top, ratio.bot)]
    ELSE [tag |-> "num", shown |-> RoundHalfEven(0 - 100 * ratio.top, 0 - ratio.bot)]

\* ---------------------------------------------------------------- state
\* Records list their fields in the order TLC keeps them in, so that no worker
\* ever reorders a record another worker is reading.
NoDialog == [title |-> "none"]
Owners == Threads \cup {"main"}

EmptyPlot == [x |-> <<>>, y |-> <<>>]

IdleThread ==
    [total_points |-> 0, age |-> 0, height |-> 0, sex |-> "", smoker |-> FALSE,
     t |-> <<>>, pc |-> "idle", fvc_pred |-> 0, fev1_pred |-> 0,
     flow |-> <<>>, volume |-> <<>>, peak_flow |-> 0, decay |-> 0, i |-> 0]

NoCall == [fvc |-> PyFloat(0), fev1 |-> PyFloat(0), called |-> FALSE, ret |-> ""]

Init ==
    /\ rng \in Seeds
    /\ threads = [r \in Threads |-> IdleThread]
    /\ time_var = 0
    /\ flow_var = 0
    /\ volume_var = 0
    /\ ax = EmptyPlot
    /\ canvas = EmptyPlot
    /\ messagebox = [o \in Owners |-> NoDialog]
    /\ started = 0
    /\ interp_call = NoCall

\* ---------------------------------------------------------------- start_test
\* The button handler.  A modal dialog on screen keeps the button from being
\* clicked.
start_test(r, age_text, height_text, sex_sel, smoker_sel) ==
    /\ started < MaxTests
    /\ threads[r].pc = "idle"
    /\ \A o \in Owners : messagebox[o] = NoDialog
    /\ started' = started + 1
    /\ LET age    == py_float(age_text)
           height == py_float(height_text)
           smoker == (smoker_sel = "Yes")
           pred   == calculate_spirometry(age.v, height.v, sex_sel, smoker)
       IN  IF ~age.ok \/ ~height.ok
           THEN /\ messagebox' = [messagebox EXCEPT !["main"] = [title |-> "Input Error"]]
                /\ UNCHANGED threads
           ELSE /\ threads' = [threads EXCEPT ![r] =
                      [IdleThread EXCEPT !.pc = "run", !.age = age.v, !.height = height.v,
                                         !.sex = sex_sel, !.smoker = smoker,
                                         !.fvc_pred = pred[1], !.fev1_pred = pred[2]]]
                /\ UNCHANGED messagebox
    /\ UNCHANGED <<rng, time_var, flow_var, volume_var, ax, canvas, interp_call>>

\* ---------------------------------------------------------------- simulate_breath
\* lines 28-35: clear the axes, allocate the arrays, draw peak_flow and decay
simulate_begin(r, points) ==
    LET th == threads[r]
        u1 == np_random_rand(rng)
        u2 == np_random_rand(np_random_next(rng))
    IN  /\ th.pc = "run"
        /\ ax' = EmptyPlot
        /\ rng' = np_random_next(np_random_next(rng))
        /\ threads' = [threads EXCEPT ![r] =
              [th EXCEPT !.pc = "loop", !.total_points = points,
                         !.t = np_linspace(0, 6, points),
                         !.flow = np_zeros(points), !.volume = np_zeros(points),
                         !.peak_flow = (th.fvc_pred * (800 + (400 * u1) \div 1000)) \div 100000,
                         !.decay = 2500 + u2, !.i = 0]]
        /\ UNCHANGED <<time_var, flow_var, volume_var, canvas, messagebox, started,
                       interp_call>>

\* the noiseless flow of sample i
flow_curve(peak_flow, decay, i, points) ==
    (((peak_flow * i) \div points) * np_exp(0 - ((decay * i) \div points))) \div 1000

\* mutant: the readouts refreshed on every sample
readout_due_every(i) == TRUE

\* line 44: the readouts are refreshed on these samples
readout_due(i) == i % 20 = 0

\* lines 37-58: one iteration of the loop
simulate_step(r) ==
    LET th     == threads[r]
        i      == th.i
        flow_i == flow_curve(th.peak_flow, th.decay, i, th.total_points)
                    + np_random_normal(0, 30, rng)
        flow2  == [th.flow EXCEPT ![i + 1] = flow_i]
        vol2   == IF i > 0
                  THEN [th.volume EXCEPT ![i + 1] = np_trapz(flow2, th.t, i + 1)]
                  ELSE th.volume
        plot   == [x |-> SubSeq(th.t, 1, i + 1), y |-> SubSeq(flow2, 1, i + 1)]
    IN  /\ th.pc = "loop"
        /\ i < th.total_points
        /\ rng' = np_random_next(rng)
        /\ threads' = [threads EXCEPT ![r] =
              [th EXCEPT !.flow = flow2, !.volume = vol2, !.i = i + 1]]
        /\ IF readout_due(i)
           THEN /\ time_var' = fmt_time(th.t[i + 1])
                /\ flow_var' = fmt_flow(flow2[i + 1])
                /\ volume_var' = fmt_volume(vol2[i + 1])
           ELSE UNCHANGED <<time_var, flow_var, volume_var>>
        /\ ax' = plot
        /\ canvas' = plot
        /\ UNCHANGED <<messagebox, started, interp_call>>

\* lines 60-63 and 151-158: the measured volumes, the interpretation and the
\* result dialog.  An exception in interpret_results ends the thread with no
\* dialog.
simulate_end(r) ==
    LET th     == threads[r]
        n      == th.total_points
        fev1   == np_trapz(th.flow, th.t, n \div 6)
        fvc    == np_trapz(th.flow, th.t, n)
        result == interpret_results(NpFloat(fvc), NpFloat(fev1))
    IN  /\ th.pc = "loop"
        /\ th.i = n
        /\ IF result \in Categories
           THEN /\ messagebox' = [messagebox EXCEPT ![r] =
                      [ratio |-> fmt_ratio(true_div(NpFloat(fev1), NpFloat(fvc))),
                       fvc |-> fmt_volume(fvc), fev1 |-> fmt_volume(fev1),
                       title |-> "Final Results", result |-> result]]
                /\ threads' = [threads EXCEPT ![r] = [th EXCEPT !.pc = "dialog"]]
           ELSE /\ threads' = [threads EXCEPT ![r] = IdleThread]
                /\ UNCHANGED messagebox
        /\ UNCHANGED <<rng, time_var, flow_var, volume_var, ax, canvas, started,
                       interp_call>>

\* the user closes a dialog; closing the result dialog lets run() return
dismiss(o) ==
    /\ messagebox[o] # NoDialog
    /\ messagebox' = [messagebox EXCEPT ![o] = NoDialog]
    /\ threads' = IF o \in Threads THEN [threads EXCEPT ![o] = IdleThread] ELSE threads
    /\ UNCHANGED <<rng, time_var, flow_var, volume_var, ax, canvas, started, interp_call>>

\* ---------------------------------------------------------------- a direct call
InterpValues == {-10000, -7, 0, 1, 5, 7, 10, 4999, 5000, 6999, 7000, 10000}
FloatKinds == {"float", "np.float64"}

call_interpret_results(fvc, fev1) ==
    /\ ~interp_call.called
    /\ interp_call' = [fvc |-> fvc, fev1 |-> fev1, called |-> TRUE,
                       ret |-> interpret_results(fvc, fev1)]
    /\ UNCHANGED <<rng, threads, time_var, flow_var, volume_var, ax, canvas,
                   messagebox, started>>

\* ---------------------------------------------------------------- specifications
\* One run at a time: the button is clicked when no worker is running.
Start ==
    /\ \A s \in Threads : threads[s].pc = "idle"
    /\ \E a \in AgeTexts, h \in HeightTexts, sx \in SexValues, sm \in SmokerValues :
          start_test("T1", a, h, sx, sm)
Begin == \E r \in Threads : simulate_begin(r, total_points)
Step == \E r \in Threads : simulate_step(r)
End == \E r \in Threads : simulate_end(r)
Dismiss == \E o \in Owners : dismiss(o)

Next == Start \/ Begin \/ Step \/ End \/ Dismiss

Spec == Init /\ [][Next]_vars

\* The button clicked again while a worker is running.
ConcAgeTexts == { <<"3", "0">> }
ConcHeightTexts == { <<"1", "7", "0">> }

StartConc ==
    \E r \in Threads, a \in ConcAgeTexts, h \in ConcHeightTexts,
       sx \in SexValues, sm \in SmokerValues :
          start_test(r, a, h, sx, sm)
BeginConc == \E r \in Threads : simulate_begin(r, ConcPoints)

NextConc == StartConc \/ BeginConc \/ Step \/ End \/ Dismiss

SpecConc == Init /\ [][NextConc]_vars

\* interpret_results called directly on every pair of inputs.
CallInterpret ==
    \E f \in InterpValues, e \in InterpValues, kf \in FloatKinds, ke \in FloatKinds :
        call_interpret_results(<<kf, f>>, <<ke, e>>)

NextInterp == CallInterpret

SpecInterp == Init /\ [][NextInterp]_vars

\* ---------------------------------------------------------------- properties
Running(r) == threads[r].pc \in {"loop", "dialog"}
Launched(r) == threads[r].pc # "idle"
ValidProfile(r) == threads[r].age > 0 /\ threads[r].height > 0

\* C1: for fvc # 0 interpret_results returns exactly one category, decided by
\* ratio = fev1 / fvc: Normal iff ratio >= 0.70, Mild iff 0.50 <= ratio < 0.70,
\* Severe iff ratio < 0.50; 0.70 is Normal, 0.6999 Mild, 0.50 Mild, 0.4999 Severe.
C1_InterpretBoundaries ==
    (interp_call.called /\ ValueOf(interp_call.fvc) # 0) =>
        LET f   == ValueOf(interp_call.fvc)
            e   == ValueOf(interp_call.fev1)
            ret == interp_call.ret
            \* e / f >= p / 100
            AtLeast(p) == IF f > 0 THEN 100 * e >= p * f ELSE 100 * e <= p * f
        IN  /\ ret \in Categories
            /\ (ret = "Normal Lung Function") <=> AtLeast(70)
            /\ (ret = "Mild Obstruction") <=> (AtLeast(50) /\ ~AtLeast(70))
            /\ (ret = "Severe Obstruction") <=> ~AtLeast(50)
            /\ (f = 10000 /\ e = 7000) => ret = "Normal Lung Function"
            /\ (f = 10000 /\ e = 6999) => ret = "Mild Obstruction"
            /\ (f = 10000 /\ e = 5000) => ret = "Mild Obstruction"
            /\ (f = 10000 /\ e = 4999) => ret = "Severe Obstruction"

C1_Witness ==
    /\ interp_call.called
    /\ ValueOf(interp_call.fvc) = 10 /\ ValueOf(interp_call.fev1) = 7
    /\ interp_call.ret = "Normal Lung Function"

\* C7: interpret_results called with fvc = 0 signals an error and returns no
\* category, whatever the type of the values.
C7_ZeroFvcSignalsError ==
    (interp_call.called /\ ValueOf(interp_call.fvc) = 0) =>
        (interp_call.ret = "ZeroDivisionError" /\ interp_call.ret \notin Categories)

\* C2: a worker started from a valid profile holds fvc_pred >= 1.5 L and
\* fev1_pred >= 1.0 L.
C2_PredictedAboveFloors ==
    \A r \in Threads :
        (Launched(r) /\ ValidProfile(r)) =>
            (threads[r].fvc_pred >= 150000 /\ threads[r].fev1_pred >= 100000)

C2_Witness ==
    \E r \in Threads :
        /\ Launched(r) /\ ValidProfile(r)
        /\ prediction_equations(threads[r].age, threads[r].height, threads[r].sex)[1] < 150000
        /\ threads[r].fvc_pred = 150000 /\ threads[r].fev1_pred = 100000

\* the values the worker's profile gives as a smoker and as a non-smoker: the
\* worker's own prediction and that of the profile with the other smoker flag
SmokerPred(r) ==
    IF threads[r].smoker THEN <<threads[r].fvc_pred, threads[r].fev1_pred>>
    ELSE calculate_spirometry(threads[r].age, threads[r].height, threads[r].sex, TRUE)
NonSmokerPred(r) ==
    IF ~threads[r].smoker THEN <<threads[r].fvc_pred, threads[r].fev1_pred>>
    ELSE calculate_spirometry(threads[r].age, threads[r].height, threads[r].sex, FALSE)
RawPred(r) == prediction_equations(threads[r].age, threads[r].height, threads[r].sex)
PreFloorRatios(r) ==
    /\ smoker_adjust(RawPred(r), TRUE)[1] * 100 = RawPred(r)[1] * 90
    /\ smoker_adjust(RawPred(r), TRUE)[2] * 100 = RawPred(r)[2] * 85

\* C8 as stated: for every valid profile the smoker's predicted FVC and FEV1
\* are strictly lower than the non-smoker's, the pre-floor ratios 0.90 and 0.85.
C8_SmokerStrictlyLower ==
    \A r \in Threads :
        (Launched(r) /\ ValidProfile(r)) =>
            /\ SmokerPred(r)[1] < NonSmokerPred(r)[1]
            /\ SmokerPred(r)[2] < NonSmokerPred(r)[2]
            /\ PreFloorRatios(r)

\* C8 amended: the pre-floor ratios are 0.90 and 0.85; the returned smoker
\* values are never higher than the non-smoker's, and strictly lower exactly
\* when the non-smoker's value is above its floor.
C8_SmokerLowerAboveFloor ==
    \A r \in Threads :
        (Launched(r) /\ ValidProfile(r)) =>
            /\ SmokerPred(r)[1] <= NonSmokerPred(r)[1]
            /\ SmokerPred(r)[2] <= NonSmokerPred(r)[2]
            /\ (SmokerPred(r)[1] < NonSmokerPred(r)[1]) <=> (NonSmokerPred(r)[1] > 150000)
            /\ (SmokerPred(r)[2] < NonSmokerPred(r)[2]) <=> (NonSmokerPred(r)[2] > 100000)
            /\ PreFloorRatios(r)

C8_Witness ==
    \E r \in Threads :
        /\ Launched(r) /\ ValidProfile(r) /\ threads[r].smoker
        /\ NonSmokerPred(r)[1] > 150000
        /\ threads[r].fvc_pred < NonSmokerPred(r)[1]
        /\ threads[r].fev1_pred < NonSmokerPred(r)[2]

ExampleProfile(r) ==
    /\ Launched(r)
    /\ threads[r].age = 30 /\ threads[r].height = 170
    /\ threads[r].sex = "Male" /\ ~threads[r].smoker

\* C9 as stated: age 30, height 170, Male, non-smoker gives 3.92 L and 3.18 L.
C9_ExampleAsStated ==
    \A r \in Threads :
        ExampleProfile(r) => (threads[r].fvc_pred = 392000 /\ threads[r].fev1_pred = 318000)

\* C9 amended: age 30, height 170, Male, non-smoker gives 4.58 L and 3.74 L,
\* the values of the two regressions, both above the floors and unfloored.
C9_ExampleValues ==
    \A r \in Threads :
        ExampleProfile(r) =>
            /\ threads[r].fvc_pred = 458000 /\ threads[r].fev1_pred = 374000
            /\ threads[r].fvc_pred > 150000 /\ threads[r].fev1_pred > 100000

C9_Witness == \E r \in Threads : ExampleProfile(r) /\ threads[r].fvc_pred = 458000

\* C6 as stated: the engine is only reached with age > 0 and height > 0.
C6_EngineOnlyWithPositiveInput ==
    \A r \in Threads : Launched(r) => ValidProfile(r)

\* C3: the trace has total_points samples, volume[0] = 0, and every sample
\* produced so far has volume[i] = volume[i-1] + (flow[i-1] + flow[i]) *
\* (t[i] - t[i-1]) / 2, during the run and after it.
C3_VolumeIsRunningTrapezoid ==
    \A r \in Threads :
        Running(r) =>
            LET th == threads[r]
            IN  /\ Len(th.t) = 120 /\ Len(th.flow) = 120 /\ Len(th.volume) = 120
                /\ th.volume[1] = 0
                /\ \A k \in 2..th.i :
                      th.volume[k] = th.volume[k - 1]
                          + ((th.flow[k - 1] + th.flow[k]) * (th.t[k] - th.t[k - 1])) \div 2

C3_Witness ==
    \E r \in Threads :
        /\ threads[r].pc = "dialog" /\ threads[r].i = 120
        /\ threads[r].volume[120] > threads[r].volume[60]
        /\ threads[r].volume[60] > 0

\* the readouts show sample k (counted from 0) of worker r
ReadoutsShow(r, k) ==
    /\ time_var = fmt_time(threads[r].t[k + 1])
    /\ flow_var = fmt_flow(threads[r].flow[k + 1])
    /\ volume_var = fmt_volume(threads[r].volume[k + 1])

C10_TimeIsFractionOfDuration ==
    \A r \in Threads :
        Running(r) =>
            \A k \in 1..Len(threads[r].t) : threads[r].t[k] = ((k - 1) * 60000) \div 120

\* C10 amended: t[i] = i * 6 / (total_points - 1), from t[0] = 0 to
\* t[total_points - 1] = 6, while the flow formula takes the fraction
\* i / total_points: the flow just computed is the curve value at that
\* fraction plus the noise drawn for it.
C10_TimeIsLinspace ==
    \A r \in Threads :
        Running(r) =>
            LET th == threads[r]
            IN  /\ \A k \in 1..Len(th.t) : th.t[k] = ((k - 1) * 60000) \div (120 - 1)
                /\ th.t[1] = 0 /\ th.t[Len(th.t)] = 60000
                /\ \A k \in {th.i} \ {0} :
                      th.flow[k] - (((th.peak_flow * (k - 1)) \div 120)
                                      * np_exp(0 - ((th.decay * (k - 1)) \div 120))) \div 1000
                          \in {-60, -30, 0, 30, 60}

C10_Witness ==
    \E r \in Threads :
        /\ threads[r].pc = "loop" /\ threads[r].i = 120
        /\ threads[r].t[2] = 504 /\ threads[r].t[120] = 60000
        /\ threads[r].t[2] # 60000 \div 120

\* C5 as stated: while a worker is inside simulate_breath, a step that is not
\* its own changes nothing it reads or writes: the generator state, the
\* readouts, the axes, the canvas.
C5_NoSharedMutableState ==
    [][\A r \in Threads :
          (threads[r].pc = "loop" /\ threads'[r] = threads[r]) =>
              /\ rng' = rng
              /\ time_var' = time_var /\ flow_var' = flow_var /\ volume_var' = volume_var
              /\ ax' = ax /\ canvas' = canvas]_vars

====
